---- MODULE Spec2Model ----
(***************************************************************************)
(* LukiWiki conflict-resolution and placeholder pipeline                   *)
(* (src/src/lukiwiki): preprocess_conflicts, the collaborator renderer,    *)
(* the code-section guard, postprocess_conflicts and the decoration        *)
(* engines, modelled as string rewriting over TLC strings.                 *)
(*                                                                         *)
(* Text is a TLC string; a character is a string of length 1.  The         *)
(* character repertoire is ASCII: TAB, LF, CR and 32..126.                 *)
(***************************************************************************)
EXTENDS Integers, Sequences, FiniteSets, TLC

\* ------------------------------------------------------------------------
\* Strings.  Operators that walk a string are written without recursion over
\* its length (position sets, balanced concatenation), so that their
\* evaluation depth does not grow with the text.
\* ------------------------------------------------------------------------

Char(s, i) == SubSeq(s, i, i)

Chars(s) == { Char(s, i) : i \in 1..Len(s) }

Min(S) == CHOOSE x \in S : \A y \in S : x <= y
Max(S) == CHOOSE x \in S : \A y \in S : y <= x

\* Body of the value, the value being computed first: a statement
\* let v = value; followed by the statements of Body
Bind(value, Body(_)) == CHOOSE out \in { Body(v) : v \in {value} } : TRUE

\* s[from..] (Rust &s[from..], 1-based here)
From(s, i) == SubSeq(s, i, Len(s))

StartsWith(s, p) == Len(p) <= Len(s) /\ SubSeq(s, 1, Len(p)) = p

\* p occurs in s at position i
At(s, i, p) == i >= 1 /\ i + Len(p) - 1 <= Len(s) /\ SubSeq(s, i, i + Len(p) - 1) = p

Contains(s, p) == \E i \in 1..(Len(s) + 1) : At(s, i, p)

\* concatenation of a sequence of strings
RECURSIVE ConcatRange(_, _, _)
ConcatRange(parts, lo, hi) ==
  IF lo > hi THEN ""
  ELSE IF lo = hi THEN parts[lo]
  ELSE LET mid == (lo + hi) \div 2
       IN ConcatRange(parts, lo, mid) \o ConcatRange(parts, mid + 1, hi)

ConcatAll(parts) == ConcatRange(parts, 1, Len(parts))

Join(parts, sep) ==
  ConcatAll([k \in 1..Len(parts) |-> IF k = 1 THEN parts[k] ELSE sep \o parts[k]])

\* the string with every character c replaced by F(c)
MapChars(s, F(_)) == ConcatAll([i \in 1..Len(s) |-> F(Char(s, i))])

\* str::replace(from, to) for a one-character pattern
ReplaceChar(s, c, to) == MapChars(s, LAMBDA x : IF x = c THEN to ELSE x)

Lower == Chars("abcdefghijklmnopqrstuvwxyz")
Upper == Chars("ABCDEFGHIJKLMNOPQRSTUVWXYZ")
Digit == Chars("0123456789")
\* \w and \s of the regex crate, restricted to the ASCII repertoire
WordChars == Lower \cup Upper \cup Digit \cup {"_"}
WhiteSpace == {" ", "\t", "\n", "\r"}

\* str::trim_end / str::trim_start / str::trim
TrimEnd(s) ==
  LET keep == { i \in 1..Len(s) : Char(s, i) \notin WhiteSpace }
  IN IF keep = {} THEN "" ELSE SubSeq(s, 1, Max(keep))

TrimStart(s) ==
  LET keep == { i \in 1..Len(s) : Char(s, i) \notin WhiteSpace }
  IN IF keep = {} THEN "" ELSE From(s, Min(keep))

Trim(s) == TrimEnd(TrimStart(s))

\* the elements of a finite set of numbers in increasing order
Sorted(S) ==
  [k \in 1..Cardinality(S) |-> CHOOSE x \in S : Cardinality({ y \in S : y < x }) = k - 1] @@ <<>>

\* str::lines(): split on LF, drop one trailing CR per line, no final empty line
SplitLF(s) ==
  Bind(Sorted({ i \in 1..Len(s) : Char(s, i) = "\n" }), LAMBDA nl :
    [k \in 1..(Len(nl) + 1) |->
       SubSeq(s, IF k = 1 THEN 1 ELSE nl[k - 1] + 1,
                 IF k = Len(nl) + 1 THEN Len(s) ELSE nl[k] - 1)] @@ <<>>)

StripCR(l) == IF Len(l) > 0 /\ Char(l, Len(l)) = "\r" THEN SubSeq(l, 1, Len(l) - 1) ELSE l

Lines(s) ==
  Bind(SplitLF(s), LAMBDA raw :
    [k \in 1..(IF raw[Len(raw)] = "" THEN Len(raw) - 1 ELSE Len(raw)) |-> StripCR(raw[k])] @@ <<>>)

\* decimal rendering of a natural number (format!("{}", n))
RECURSIVE Dec(_)
Dec(n) == IF n < 10 THEN Char("0123456789", n + 1) ELSE Dec(n \div 10) \o Char("0123456789", (n % 10) + 1)

\* ------------------------------------------------------------------------
\* Regular expressions (regex crate: leftmost-first match, replace_all over
\* the non-overlapping matches from left to right).  A pattern is a sequence
\* of nodes; Match returns the captures of the match the crate prefers
\* (greedy: longest repetition first, lazy: shortest first, alternatives in
\* order), or Fail.
\* ------------------------------------------------------------------------

Unbounded == 1000000

Lit(str) == [t |-> "lit", s |-> str]
In(set) == [t |-> "cls", neg |-> FALSE, set |-> set]
NotIn(set) == [t |-> "cls", neg |-> TRUE, set |-> set]
\* c{lo,hi} for a character class c
ClsRep(c, lo, hi, greedy) == [t |-> "crep", c |-> c, lo |-> lo, hi |-> hi, greedy |-> greedy]
Star(c) == ClsRep(c, 0, Unbounded, TRUE)           \* c*
Plus(c) == ClsRep(c, 1, Unbounded, TRUE)           \* c+
LazyStar(c) == ClsRep(c, 0, Unbounded, FALSE)      \* c*?
LazyPlus(c) == ClsRep(c, 1, Unbounded, FALSE)      \* c+?
GroupStar(body) == [t |-> "star", x |-> body]      \* (?:body)*
Alt(alts) == [t |-> "alt", xs |-> alts]            \* a|b|...
Open(g) == [t |-> "open", g |-> g]
Close(g) == [t |-> "close", g |-> g]
Bol == [t |-> "bol"]                               \* (?m)^
Eol == [t |-> "eol"]                               \* (?m)$

Opt(body) == <<Alt(<<body, <<>>>>)>>               \* (?:body)?
Cap(g, body) == <<Open(g)>> \o body \o <<Close(g)>>

Dot == NotIn({"\n"})                               \* .
AnyChar == NotIn({})                               \* [\s\S]
WS == In(WhiteSpace)                               \* \s
W == In(WordChars)                                 \* \w
D == In(Digit)                                     \* \d

InClass(ch, c) == (ch \in c.set) # c.neg

\* number of consecutive characters of class c from pos on
RunLen(s, pos, c) ==
  Min({ j \in pos..(Len(s) + 1) : j = Len(s) + 1 \/ ~InClass(Char(s, j), c) }) - pos

Fail == <<>>
MaxGroups == 3
NoCaps == [g \in 1..(MaxGroups + 1) |-> <<0, 0>>]

\* The matcher works on tables: a table gives, for every position of s, the match
\* of the rest of a pattern from that position (Fail when there is none), with the
\* end in [1][2] and the spans of the groups the rest of the pattern closes.
AcceptTab(s) == [p \in 1..(Len(s) + 1) |-> [NoCaps EXCEPT ![1] = <<0, p>>]] @@ <<>>

\* the set of positions a chain p, step[p], step[step[p]], ... visits, for every p
\* (step[p] = 0 ends the chain; step[p] > p otherwise)
Square(R) == [p \in DOMAIN R |-> UNION { R[q] : q \in R[p] }] @@ <<>>

RECURSIVE Closure(_)
Closure(R) == Bind(Square(R), LAMBDA R2 : IF R2 = R THEN R ELSE Closure(R2))

Chains(step) ==
  Closure([p \in DOMAIN step |-> {p} \cup (IF step[p] = 0 THEN {} ELSE {step[p]})] @@ <<>>)

RECURSIVE Tab(_, _, _)
\* the table of node n followed by a pattern whose table is T
NodeTab(n, s, T) ==
  LET P == 1..(Len(s) + 1)
  IN CASE n.t = "lit" ->
            [p \in P |-> IF At(s, p, n.s) THEN T[p + Len(n.s)] ELSE Fail]
       [] n.t = "cls" ->
            [p \in P |-> IF p <= Len(s) /\ InClass(Char(s, p), n) THEN T[p + 1] ELSE Fail]
       [] n.t = "crep" ->
            \* greedy: the longest run the rest matches after; lazy: the shortest
            [p \in P |->
              LET run == RunLen(s, p, n.c)
                  top == IF run < n.hi THEN run ELSE n.hi
                  good == { k \in n.lo..top : T[p + k] # Fail }
              IN IF good = {} THEN Fail
                 ELSE T[p + (IF n.greedy THEN Max(good) ELSE Min(good))]]
       [] n.t = "star" ->
            \* every alternative of the body has one match from a position, so the
            \* iterations from p form one chain; the longest chain the rest matches after
            Bind(Tab(n.x, s, AcceptTab(s)), LAMBDA body :
            Bind(Chains([p \in P |-> IF body[p] = Fail THEN 0 ELSE body[p][1][2]] @@ <<>>),
                 LAMBDA reach :
              [p \in P |->
                LET good == { q \in reach[p] : T[q] # Fail }
                IN IF good = {} THEN Fail ELSE T[Max(good)]]))
       [] n.t = "alt" ->
            \* the first alternative, in the order written, that the rest matches after
            Bind([j \in 1..Len(n.xs) |->
                    IF Len(n.xs[j]) = 0 THEN T ELSE Tab(n.xs[j], s, T)] @@ <<>>, LAMBDA tabs :
              [p \in P |->
                LET good == { j \in 1..Len(n.xs) : tabs[j][p] # Fail }
                IN IF good = {} THEN Fail ELSE tabs[Min(good)][p]])
       [] n.t = "open" ->
            [p \in P |-> IF T[p] = Fail THEN Fail
                         ELSE [T[p] EXCEPT ![n.g + 1] = <<p, T[p][n.g + 1][2]>>]]
       [] n.t = "close" ->
            [p \in P |-> IF T[p] = Fail THEN Fail
                         ELSE [T[p] EXCEPT ![n.g + 1] = <<T[p][n.g + 1][1], p>>]]
       [] n.t = "bol" ->
            [p \in P |-> IF p = 1 \/ Char(s, p - 1) = "\n" THEN T[p] ELSE Fail]
       [] n.t = "eol" ->
            [p \in P |-> IF p = Len(s) + 1 \/ Char(s, p) = "\n" THEN T[p] ELSE Fail]

\* the table of the non-empty pattern re followed by a pattern whose table is T:
\* the table of its second half first, then the first half in front of it
Tab(re, s, T) ==
  IF Len(re) = 1 THEN NodeTab(re[1], s, T) @@ <<>>
  ELSE Bind(Tab(SubSeq(re, Len(re) \div 2 + 1, Len(re)), s, T), LAMBDA right :
         Tab(SubSeq(re, 1, Len(re) \div 2), s, right))

\* the match the pattern has at each position of s
MatchTable(re, s) ==
  Bind(Tab(re, s, AcceptTab(s)), LAMBDA T :
    [i \in 1..(Len(s) + 1) |->
       IF T[i] = Fail THEN Fail ELSE [T[i] EXCEPT ![1] = <<i, T[i][1][2]>>]] @@ <<>>)

MatchAt(re, s, pos) == MatchTable(re, s)[pos]

\* Regex::captures / Regex::find: the leftmost match at or after from, Fail when none
Find(re, s, from) ==
  Bind(MatchTable(re, s), LAMBDA tab :
    LET hits == { i \in DOMAIN tab : i >= from /\ tab[i] # Fail }
    IN IF hits = {} THEN Fail ELSE tab[Min(hits)])

IsMatch(re, s) == Find(re, s, 1) # Fail

\* caps.get(g).map_or("", |m| m.as_str()) / &caps[g]
Grp(s, m, g) == IF m[g + 1][1] = 0 THEN "" ELSE SubSeq(s, m[g + 1][1], m[g + 1][2] - 1)
Start(m) == m[1][1]
End(m) == m[1][2]

\* the matches replace_all visits, in order: each search resumes at the end of the
\* match before (every pattern here consumes at least one character)
Matches(re, s) ==
  Bind(MatchTable(re, s), LAMBDA tab :
  Bind([i \in DOMAIN tab |-> LET hs == { h \in DOMAIN tab : h >= i /\ tab[h] # Fail }
                             IN IF hs = {} THEN 0 ELSE Min(hs)] @@ <<>>, LAMBDA hit :
  Bind([i \in DOMAIN tab |-> IF hit[i] = 0 THEN 0 ELSE End(tab[hit[i]])] @@ <<>>, LAMBDA resume :
  Bind(Sorted({ hit[c] : c \in Chains(resume)[1] } \ {0}), LAMBDA order :
    [k \in 1..Len(order) |-> tab[order[k]]] @@ <<>>))))

\* s with each match replaced by its replacement
Splice(s, ms, reps) ==
  ConcatAll([k \in 1..(Len(ms) + 1) |->
    SubSeq(s, IF k = 1 THEN 1 ELSE End(ms[k - 1]), IF k > Len(ms) THEN Len(s) ELSE Start(ms[k]) - 1)
      \o (IF k > Len(ms) THEN "" ELSE reps[k])])

\* Regex::replace_all(s, |caps| F(caps, k)); k is the 1-based number of the match,
\* which is what a counter incremented by the closure holds
ReplaceAll(re, s, F(_, _)) ==
  Bind(Matches(re, s), LAMBDA ms :
  Bind([k \in 1..Len(ms) |-> F(ms[k], k)] @@ <<>>, LAMBDA reps :
    Splice(s, ms, reps)))

\* Regex::replace(s, rep): the first match only
ReplaceFirst(re, s, rep) ==
  Bind(Find(re, s, 1), LAMBDA m :
    IF m = Fail THEN s ELSE SubSeq(s, 1, Start(m) - 1) \o rep \o From(s, End(m)))

\* ------------------------------------------------------------------------
\* Library conversions used by the pipeline
\* ------------------------------------------------------------------------

\* ASCII 32..95 and 97..126 in code order (the grave accent, 96, is left out)
PrintableLow == " !\"#$%&'()*+,-./0123456789:;<=>?@ABCDEFGHIJKLMNOPQRSTUVWXYZ[\\]^_"
PrintableHigh == "abcdefghijklmnopqrstuvwxyz{|}~"

Repertoire == Chars(PrintableLow) \cup Chars(PrintableHigh) \cup {"\t", "\n", "\r"}

\* content.as_bytes(): the byte of a character
OrdOf ==
  [c \in Repertoire |->
     IF c = "\t" THEN 9 ELSE IF c = "\n" THEN 10 ELSE IF c = "\r" THEN 13
     ELSE IF c \in Chars(PrintableLow)
     THEN 31 + (CHOOSE i \in 1..Len(PrintableLow) : Char(PrintableLow, i) = c)
     ELSE 96 + (CHOOSE i \in 1..Len(PrintableHigh) : Char(PrintableHigh, i) = c)]

ChrOf == [b \in { OrdOf[c] : c \in Repertoire } |-> CHOOSE c \in Repertoire : OrdOf[c] = b]

B64Alphabet == "ABCDEFGHIJKLMNOPQRSTUVWXYZabcdefghijklmnopqrstuvwxyz0123456789+/"

B64Char(n) == Char(B64Alphabet, n + 1)

B64Val == [c \in Chars(B64Alphabet) |-> (CHOOSE i \in 1..64 : Char(B64Alphabet, i) = c) - 1]

\* general_purpose::STANDARD.encode(content.as_bytes()): one group of four
\* symbols for every three bytes, the last group padded with =
B64Group(s, g) ==
  LET i == 3 * g - 2
      a == OrdOf[Char(s, i)]
  IN IF i = Len(s) THEN B64Char(a \div 4) \o B64Char((a % 4) * 16) \o "=="
     ELSE LET b == OrdOf[Char(s, i + 1)] IN
       IF i + 1 = Len(s)
       THEN B64Char(a \div 4) \o B64Char((a % 4) * 16 + b \div 16) \o B64Char((b % 16) * 4) \o "="
       ELSE LET c == OrdOf[Char(s, i + 2)] IN
         B64Char(a \div 4) \o B64Char((a % 4) * 16 + b \div 16)
           \o B64Char((b % 16) * 4 + c \div 64) \o B64Char(c % 64)

B64Encode(s) == ConcatAll([g \in 1..((Len(s) + 2) \div 3) |-> B64Group(s, g)])

\* general_purpose::STANDARD.decode: the alphabet only, canonical padding in the
\* last group only, no trailing bits
B64Err == [ok |-> FALSE, bytes |-> <<>>]
B64Ok(bs) == [ok |-> TRUE, bytes |-> bs]

\* the bytes of the g-th group of four symbols, B64Err when the group is malformed
B64Quad(e, g, last) ==
  LET q == [i \in 1..4 |-> Char(e, 4 * g - 4 + i)]
      v(i) == B64Val[q[i]]
      sym(i) == q[i] \in DOMAIN B64Val
  IN IF ~(sym(1) /\ sym(2)) THEN B64Err
     ELSE IF sym(3) /\ sym(4)
       THEN B64Ok(<<v(1) * 4 + v(2) \div 16, (v(2) % 16) * 16 + v(3) \div 4, (v(3) % 4) * 64 + v(4)>>)
     ELSE IF last /\ sym(3) /\ q[4] = "=" /\ v(3) % 4 = 0
       THEN B64Ok(<<v(1) * 4 + v(2) \div 16, (v(2) % 16) * 16 + v(3) \div 4>>)
     ELSE IF last /\ q[3] = "=" /\ q[4] = "=" /\ v(2) % 16 = 0
       THEN B64Ok(<<v(1) * 4 + v(2) \div 16>>)
     ELSE B64Err

RECURSIVE FlattenRange(_, _, _)
FlattenRange(parts, lo, hi) ==
  IF lo > hi THEN <<>>
  ELSE IF lo = hi THEN parts[lo]
  ELSE LET mid == (lo + hi) \div 2
       IN FlattenRange(parts, lo, mid) \o FlattenRange(parts, mid + 1, hi)

B64Decode(e) ==
  IF Len(e) % 4 # 0 THEN B64Err
  ELSE LET n == Len(e) \div 4
           quads == [g \in 1..n |-> B64Quad(e, g, g = n)]
       IN IF \A g \in 1..n : quads[g].ok
          THEN B64Ok(FlattenRange([g \in 1..n |-> quads[g].bytes], 1, n))
          ELSE B64Err

FromBytes(bs) == ConcatAll([i \in 1..Len(bs) |-> ChrOf[bs[i]]])

\* .decode(..).ok().and_then(|bytes| String::from_utf8(bytes).ok())
\*    .unwrap_or_else(|| encoded_content.to_string())
\* (bytes outside the repertoire are not text of this model: the raw field is kept)
DecodeOrRaw(encoded_content) ==
  LET r == B64Decode(encoded_content)
  IN IF r.ok /\ \A i \in 1..Len(r.bytes) : r.bytes[i] \in DOMAIN ChrOf
     THEN FromBytes(r.bytes) ELSE encoded_content

\* html_escape::encode_double_quoted_attribute
encode_double_quoted_attribute(s) ==
  MapChars(s, LAMBDA c : CASE c = "&" -> "&amp;" [] c = "<" -> "&lt;" [] c = ">" -> "&gt;"
                           [] c = "\"" -> "&quot;" [] OTHER -> c)

\* content.replace('<', "&lt;").replace('>', "&gt;"): only the angle brackets
EscapeContent(content) == ReplaceChar(ReplaceChar(content, "<", "&lt;"), ">", "&gt;")

\* ------------------------------------------------------------------------
\* conflict_resolver.rs: patterns
\* ------------------------------------------------------------------------

\* (?m)^>\s*(.+?)\s*<\s*$
LUKIWIKI_BLOCKQUOTE ==
  <<Bol, Lit(">"), Star(WS)>> \o Cap(1, <<LazyPlus(Dot)>>)
    \o <<Star(WS), Lit("<"), Star(WS), Eol>>

IdChars == Lower \cup Upper \cup Digit \cup {"_", "-"}

\* (?m)^(#{1,6})\s+(.+?)\s+\{#([a-zA-Z0-9_-]+)\}\s*$
CUSTOM_HEADER_ID ==
  <<Bol>> \o Cap(1, <<ClsRep(In({"#"}), 1, 6, TRUE)>>) \o <<Plus(WS)>> \o Cap(2, <<LazyPlus(Dot)>>)
    \o <<Plus(WS)>> \o <<Lit("{#")>> \o Cap(3, <<Plus(In(IdChars))>>) \o <<Lit("}"), Star(WS), Eol>>

\* (?m)^(COLOR\([^)]*\):\s*.+)$
color_prefix ==
  <<Bol>> \o Cap(1, <<Lit("COLOR("), Star(NotIn({")"})), Lit("):"), Star(WS)>> \o <<Plus(Dot)>>) \o <<Eol>>

\* (?m)^(SIZE\([^)]+\):\s*.+)$
size_prefix ==
  <<Bol>> \o Cap(1, <<Lit("SIZE(")>> \o <<Plus(NotIn({")"}))>> \o <<Lit("):"), Star(WS)>> \o <<Plus(Dot)>>) \o <<Eol>>

\* (?m)^((RIGHT|CENTER|LEFT):\s*.+)$
align_prefix ==
  <<Bol>> \o Cap(1, Cap(2, <<Alt(<< <<Lit("RIGHT")>>, <<Lit("CENTER")>>, <<Lit("LEFT")>> >>)>>)
                      \o <<Lit(":"), Star(WS)>> \o <<Plus(Dot)>>) \o <<Eol>>

\* &(\w+)\(([^)]*)\)\{((?:[^{}]|\{[^}]*\})*)\};
inline_plugin ==
  <<Lit("&")>> \o Cap(1, <<Plus(W)>>) \o <<Lit("(")>> \o Cap(2, <<Star(NotIn({")"}))>>) \o <<Lit("){")>>
    \o Cap(3, <<GroupStar(<<Alt(<< <<NotIn({"{", "}"})>>, <<Lit("{"), Star(NotIn({"}"})), Lit("}")>> >>)>>)>>)
    \o <<Lit("};")>>

\* @(\w+)\(([^)]*)\)\{\{([\s\S]*?)\}\}
block_plugin_multi ==
  <<Lit("@")>> \o Cap(1, <<Plus(W)>>) \o <<Lit("(")>> \o Cap(2, <<Star(NotIn({")"}))>>) \o <<Lit("){{")>>
    \o Cap(3, <<LazyStar(AnyChar)>>) \o <<Lit("}}")>>

\* @(\w+)\(([^)]*)\)\{([^}]*)\}
block_plugin_single ==
  <<Lit("@")>> \o Cap(1, <<Plus(W)>>) \o <<Lit("(")>> \o Cap(2, <<Star(NotIn({")"}))>>) \o <<Lit("){")>>
    \o Cap(3, <<Star(NotIn({"}"}))>>) \o <<Lit("}")>>

\* <h([1-6])>([^<]+)</h([1-6])>
header_regex ==
  <<Lit("<h")>> \o Cap(1, <<In(Chars("123456"))>>) \o <<Lit(">")>> \o Cap(2, <<Plus(NotIn({"<"}))>>)
    \o <<Lit("</h")>> \o Cap(3, <<In(Chars("123456"))>>) \o <<Lit(">")>>

\* \{\{LUKIWIKI_BLOCKQUOTE:(.+?):LUKIWIKI_BLOCKQUOTE\}\}
lukiwiki_blockquote_marker ==
  <<Lit("{{LUKIWIKI_BLOCKQUOTE:")>> \o Cap(1, <<LazyPlus(Dot)>>) \o <<Lit(":LUKIWIKI_BLOCKQUOTE}}")>>

\* <p>\{\{BLOCK_DECORATION:(.+?):BLOCK_DECORATION\}\}</p>
block_decoration_marker ==
  <<Lit("<p>{{BLOCK_DECORATION:")>> \o Cap(1, <<LazyPlus(Dot)>>) \o <<Lit(":BLOCK_DECORATION}}</p>")>>

\* \{\{INLINE_PLUGIN:(\w+):([^:]*):([^:]*):INLINE_PLUGIN\}\}
inline_plugin_marker ==
  <<Lit("{{INLINE_PLUGIN:")>> \o Cap(1, <<Plus(W)>>) \o <<Lit(":")>> \o Cap(2, <<Star(NotIn({":"}))>>)
    \o <<Lit(":")>> \o Cap(3, <<Star(NotIn({":"}))>>) \o <<Lit(":INLINE_PLUGIN}}")>>

\* \{\{BLOCK_PLUGIN:(\w+):([^:]*):([^:]*):BLOCK_PLUGIN\}\}
block_plugin_marker ==
  <<Lit("{{BLOCK_PLUGIN:")>> \o Cap(1, <<Plus(W)>>) \o <<Lit(":")>> \o Cap(2, <<Star(NotIn({":"}))>>)
    \o <<Lit(":")>> \o Cap(3, <<Star(NotIn({":"}))>>) \o <<Lit(":BLOCK_PLUGIN}}")>>

\* <p>\s*(<div class="plugin-[^"]+"[^>]*>.*?</div>)\s*</p>
wrapped_plugin ==
  <<Lit("<p>"), Star(WS)>>
    \o Cap(1, <<Lit("<div class=\"plugin-")>> \o <<Plus(NotIn({"\""}))>> \o <<Lit("\""), Star(NotIn({">"})), Lit(">"),
                LazyStar(Dot), Lit("</div>")>>)
    \o <<Star(WS), Lit("</p>")>>

\* ------------------------------------------------------------------------
\* block_decorations.rs
\* ------------------------------------------------------------------------

None == [some |-> FALSE, v |-> ""]
Some(x) == [some |-> TRUE, v |-> x]

\* SIZE\(([^)]+)\):
SIZE_EXTRACT == <<Lit("SIZE(")>> \o Cap(1, <<Plus(NotIn({")"}))>>) \o <<Lit("):")>>

\* COLOR\(([^,)]*?)(?:,([^)]*?))?\):
COLOR_EXTRACT ==
  <<Lit("COLOR(")>> \o Cap(1, <<LazyStar(NotIn({",", ")"}))>>)
    \o Opt(<<Lit(",")>> \o Cap(2, <<LazyStar(NotIn({")"}))>>)) \o <<Lit("):")>>

\* (TRUNCATE):
TRUNCATE_EXTRACT == Cap(1, <<Lit("TRUNCATE")>>) \o <<Lit(":")>>

\* (TOP|MIDDLE|BOTTOM|BASELINE):
VALIGN_EXTRACT ==
  Cap(1, <<Alt(<< <<Lit("TOP")>>, <<Lit("MIDDLE")>>, <<Lit("BOTTOM")>>, <<Lit("BASELINE")>> >>)>>) \o <<Lit(":")>>

\* (JUSTIFY|RIGHT|CENTER|LEFT):
ALIGN_EXTRACT ==
  Cap(1, <<Alt(<< <<Lit("JUSTIFY")>>, <<Lit("RIGHT")>>, <<Lit("CENTER")>>, <<Lit("LEFT")>> >>)>>) \o <<Lit(":")>>

map_font_size(value) ==
  IF Contains(value, "rem") \/ Contains(value, "em") \/ Contains(value, "px") THEN value
  ELSE CASE value = "2.5" -> "fs-1"
         [] value \in {"2", "2.0"} -> "fs-2"
         [] value = "1.75" -> "fs-3"
         [] value = "1.5" -> "fs-4"
         [] value = "1.25" -> "fs-5"
         [] value = "0.875" -> "fs-6"
         [] OTHER -> value \o "rem"

\* map_color without the early return for an empty or inherit value
map_color_keeps_inherit(value, is_background) == Some(Trim(value))

bootstrap_colors ==
  <<"primary", "secondary", "success", "danger", "warning", "info", "light", "dark",
    "body", "body-secondary", "body-tertiary", "body-emphasis",
    "primary-subtle", "secondary-subtle", "success-subtle", "danger-subtle",
    "warning-subtle", "info-subtle", "light-subtle", "dark-subtle",
    "primary-emphasis", "secondary-emphasis", "success-emphasis", "danger-emphasis",
    "warning-emphasis", "info-emphasis", "light-emphasis", "dark-emphasis">>

map_color(value, is_background) ==
  LET trimmed == Trim(value) IN
  IF trimmed = "" \/ trimmed = "inherit" THEN None
  ELSE IF \E k \in 1..Len(bootstrap_colors) :
            trimmed = bootstrap_colors[k] \/ StartsWith(trimmed, bootstrap_colors[k] \o "-")
       THEN Some((IF is_background THEN "bg" ELSE "text") \o "-" \o trimmed)
       ELSE Some(trimmed)

\* map_text_align that falls to its default arm for every value
map_text_align_default_arm(value) == "text-start"

\* str::to_uppercase on the repertoire
ToUpper(s) == MapChars(s, LAMBDA c : IF c \in Lower THEN ChrOf[OrdOf[c] - 32] ELSE c)

map_text_align(value) ==
  LET u == ToUpper(value) IN
  CASE u = "RIGHT" -> "text-end"
    [] u = "CENTER" -> "text-center"
    [] u = "LEFT" -> "text-start"
    [] u = "JUSTIFY" -> "text-justify"
    [] OTHER -> "text-start"

map_vertical_align(value) ==
  LET u == ToUpper(value) IN
  CASE u = "TOP" -> "align-top"
    [] u = "MIDDLE" -> "align-middle"
    [] u = "BOTTOM" -> "align-bottom"
    [] u = "BASELINE" -> "align-baseline"
    [] OTHER -> "align-baseline"

\* BlockDecoration::default()
BlockDecorationDefault ==
  [fg_color |-> None, bg_color |-> None, font_size |-> None, text_align |-> None,
   truncate |-> FALSE, vertical_align |-> None]

\* parse_prefixes: (decoration, remaining.trim())
parse_prefixes(line) ==
  Bind(Find(SIZE_EXTRACT, line, 1), LAMBDA m1 :
    LET d1 == IF m1 # Fail
              THEN [BlockDecorationDefault EXCEPT !.font_size = Some(map_font_size(Grp(line, m1, 1)))]
              ELSE BlockDecorationDefault
        r1 == IF m1 # Fail THEN From(line, End(m1)) ELSE line
    IN
  Bind(Find(COLOR_EXTRACT, r1, 1), LAMBDA m2 :
    LET d2 == IF m2 # Fail
              THEN [d1 EXCEPT !.fg_color = map_color(Grp(r1, m2, 1), FALSE),
                              !.bg_color = map_color(Grp(r1, m2, 2), TRUE)]
              ELSE d1
        r2 == IF m2 # Fail THEN From(r1, End(m2)) ELSE r1
    IN
  Bind(IsMatch(TRUNCATE_EXTRACT, r2), LAMBDA t3 :
    LET d3 == IF t3 THEN [d2 EXCEPT !.truncate = TRUE] ELSE d2
    IN
  Bind(IF t3 THEN ReplaceFirst(TRUNCATE_EXTRACT, r2, "") ELSE r2, LAMBDA r3 :
  Bind(Find(VALIGN_EXTRACT, r3, 1), LAMBDA m4 :
    LET d4 == IF m4 # Fail
              THEN [d3 EXCEPT !.vertical_align = Some(map_vertical_align(Grp(r3, m4, 1)))]
              ELSE d3
        r4 == IF m4 # Fail THEN From(r3, End(m4)) ELSE r3
    IN
  Bind(Find(ALIGN_EXTRACT, r4, 1), LAMBDA m5 :
    LET d5 == IF m5 # Fail
              THEN [d4 EXCEPT !.text_align = Some(map_text_align(Grp(r4, m5, 1)))]
              ELSE d4
        r5 == IF m5 # Fail THEN From(r4, End(m5)) ELSE r4
    IN [decoration |-> d5, content |-> Trim(r5)]))))))

\* to_html_attrs with the color classes pushed before the size class
to_html_attrs_color_first(d) ==
  LET classes ==
           (IF d.text_align.some THEN <<d.text_align.v>> ELSE <<>>)
        \o (IF d.truncate THEN <<"text-truncate">> ELSE <<>>)
        \o (IF d.vertical_align.some THEN <<d.vertical_align.v>> ELSE <<>>)
        \o (IF d.fg_color.some /\ StartsWith(d.fg_color.v, "text-") THEN <<d.fg_color.v>> ELSE <<>>)
        \o (IF d.bg_color.some /\ StartsWith(d.bg_color.v, "bg-") THEN <<d.bg_color.v>> ELSE <<>>)
        \o (IF d.font_size.some /\ StartsWith(d.font_size.v, "fs-") THEN <<d.font_size.v>> ELSE <<>>)
      styles ==
           (IF d.font_size.some /\ ~StartsWith(d.font_size.v, "fs-")
              THEN <<"font-size: " \o d.font_size.v>> ELSE <<>>)
        \o (IF d.fg_color.some /\ ~StartsWith(d.fg_color.v, "text-")
              THEN <<"color: " \o d.fg_color.v>> ELSE <<>>)
        \o (IF d.bg_color.some /\ ~StartsWith(d.bg_color.v, "bg-")
              THEN <<"background-color: " \o d.bg_color.v>> ELSE <<>>)
  IN [class_attr |-> IF Len(classes) = 0 THEN None ELSE Some("class=\"" \o Join(classes, " ") \o "\""),
      style_attr |-> IF Len(styles) = 0 THEN None ELSE Some("style=\"" \o Join(styles, "; ") \o "\"")]

\* BlockDecoration::to_html_attrs: (class_attr, style_attr)
to_html_attrs(d) ==
  LET classes ==
           (IF d.text_align.some THEN <<d.text_align.v>> ELSE <<>>)
        \o (IF d.truncate THEN <<"text-truncate">> ELSE <<>>)
        \o (IF d.vertical_align.some THEN <<d.vertical_align.v>> ELSE <<>>)
        \o (IF d.font_size.some /\ StartsWith(d.font_size.v, "fs-") THEN <<d.font_size.v>> ELSE <<>>)
        \o (IF d.fg_color.some /\ StartsWith(d.fg_color.v, "text-") THEN <<d.fg_color.v>> ELSE <<>>)
        \o (IF d.bg_color.some /\ StartsWith(d.bg_color.v, "bg-") THEN <<d.bg_color.v>> ELSE <<>>)
      styles ==
           (IF d.font_size.some /\ ~StartsWith(d.font_size.v, "fs-")
              THEN <<"font-size: " \o d.font_size.v>> ELSE <<>>)
        \o (IF d.fg_color.some /\ ~StartsWith(d.fg_color.v, "text-")
              THEN <<"color: " \o d.fg_color.v>> ELSE <<>>)
        \o (IF d.bg_color.some /\ ~StartsWith(d.bg_color.v, "bg-")
              THEN <<"background-color: " \o d.bg_color.v>> ELSE <<>>)
  IN [class_attr |-> IF Len(classes) = 0 THEN None ELSE Some("class=\"" \o Join(classes, " ") \o "\""),
      style_attr |-> IF Len(styles) = 0 THEN None ELSE Some("style=\"" \o Join(styles, "; ") \o "\"")]

DecorationPrefixes ==
  <<"SIZE(", "COLOR(", "TRUNCATE:", "TOP:", "MIDDLE:", "BOTTOM:", "BASELINE:",
    "JUSTIFY:", "RIGHT:", "CENTER:", "LEFT:">>

HasDecorationPrefix(line) == \E k \in 1..Len(DecorationPrefixes) : StartsWith(line, DecorationPrefixes[k])

DecorateLine(line) ==
  IF HasDecorationPrefix(line)
  THEN Bind(parse_prefixes(line), LAMBDA p :
         LET a == to_html_attrs(p.decoration)
             attrs == (IF a.class_attr.some THEN <<a.class_attr.v>> ELSE <<>>)
                        \o (IF a.style_attr.some THEN <<a.style_attr.v>> ELSE <<>>)
         IN IF Len(attrs) = 0 THEN "<p>" \o p.content \o "</p>\n"
            ELSE "<p " \o Join(attrs, " ") \o ">" \o p.content \o "</p>\n")
  ELSE line \o "\n"

apply_block_decorations(html) ==
  Bind(Lines(html), LAMBDA ls :
  Bind([k \in 1..Len(ls) |-> DecorateLine(ls[k])] @@ <<>>, LAMBDA out :
    TrimEnd(ConcatAll(out))))

\* ------------------------------------------------------------------------
\* conflict_resolver.rs: preprocess_conflicts
\* ------------------------------------------------------------------------

EmptyHeaderMap == <<>>

\* the closure of the CUSTOM_HEADER_ID pass inserts (heading_counter, custom_id)
HeaderIds(input) ==
  Bind(Matches(CUSTOM_HEADER_ID, input), LAMBDA ms :
    [k \in 1..Len(ms) |-> Grp(input, ms[k], 3)] @@ <<>>)

StripHeaderIds(input) ==
  ReplaceAll(CUSTOM_HEADER_ID, input, LAMBDA m, k : Grp(input, m, 1) \o " " \o Grp(input, m, 2))

WrapBlockquotes(s) ==
  ReplaceAll(LUKIWIKI_BLOCKQUOTE, s,
             LAMBDA m, k : "{{LUKIWIKI_BLOCKQUOTE:" \o Grp(s, m, 1) \o ":LUKIWIKI_BLOCKQUOTE}}")

WrapDecoration(re, s) ==
  ReplaceAll(re, s, LAMBDA m, k : "{{BLOCK_DECORATION:" \o Grp(s, m, 1) \o ":BLOCK_DECORATION}}")

WrapBlockDecorations(s) ==
  Bind(WrapDecoration(color_prefix, s), LAMBDA r1 :
  Bind(WrapDecoration(size_prefix, r1), LAMBDA r2 :
    WrapDecoration(align_prefix, r2)))

PluginToken(kind, s, m) ==
  "{{" \o kind \o ":" \o Grp(s, m, 1) \o ":" \o Grp(s, m, 2) \o ":" \o B64Encode(Grp(s, m, 3))
       \o ":" \o kind \o "}}"

WrapInlinePlugins(s) ==
  ReplaceAll(inline_plugin, s, LAMBDA m, k : PluginToken("INLINE_PLUGIN", s, m))

WrapBlockPluginsMulti(s) ==
  ReplaceAll(block_plugin_multi, s, LAMBDA m, k : PluginToken("BLOCK_PLUGIN", s, m))

WrapBlockPluginsSingle(s) ==
  ReplaceAll(block_plugin_single, s, LAMBDA m, k : PluginToken("BLOCK_PLUGIN", s, m))

\* (result, header_map)
preprocess_conflicts(input) ==
  Bind(HeaderIds(input), LAMBDA header_ids :
  Bind(StripHeaderIds(input), LAMBDA r1 :
  Bind(WrapBlockquotes(r1), LAMBDA r2 :
  Bind(WrapBlockDecorations(r2), LAMBDA r3 :
  Bind(WrapInlinePlugins(r3), LAMBDA r4 :
  Bind(WrapBlockPluginsMulti(r4), LAMBDA r5 :
  Bind(WrapBlockPluginsSingle(r5), LAMBDA r6 :
    [result |-> r6, header_map |-> header_ids])))))))

\* ------------------------------------------------------------------------
\* conflict_resolver.rs: postprocess_conflicts
\* ------------------------------------------------------------------------

HeadingId(header_map, heading_counter) ==
  IF heading_counter \in DOMAIN header_map THEN header_map[heading_counter]
  ELSE "heading-" \o Dec(heading_counter)

Anchor(id) == "<a href=\"#" \o id \o "\" aria-hidden=\"true\" class=\"anchor\" id=\"" \o id \o "\"></a>"

AddHeaderIds(html, header_map) ==
  ReplaceAll(header_regex, html,
             LAMBDA m, k : "<h" \o Grp(html, m, 1) \o ">" \o Anchor(HeadingId(header_map, k))
                             \o Grp(html, m, 2) \o "</h" \o Grp(html, m, 3) \o ">")

RestoreBlockquotes(s) ==
  ReplaceAll(lukiwiki_blockquote_marker, s,
             LAMBDA m, k : "<blockquote class=\"lukiwiki\">" \o Grp(s, m, 1) \o "</blockquote>")

RestoreBlockDecorations(s) ==
  ReplaceAll(block_decoration_marker, s, LAMBDA m, k : apply_block_decorations(Grp(s, m, 1)))

PluginContainer(tag, s, m) ==
  "<" \o tag \o " class=\"plugin-" \o Grp(s, m, 1) \o "\" data-args=\""
      \o encode_double_quoted_attribute(Grp(s, m, 2)) \o "\">"
      \o EscapeContent(DecodeOrRaw(Grp(s, m, 3))) \o "</" \o tag \o ">"

RestoreInlinePlugins(s) ==
  ReplaceAll(inline_plugin_marker, s, LAMBDA m, k : PluginContainer("span", s, m))

RestoreBlockPlugins(s) ==
  ReplaceAll(block_plugin_marker, s, LAMBDA m, k : PluginContainer("div", s, m))

UnwrapPlugins(s) == ReplaceAll(wrapped_plugin, s, LAMBDA m, k : Grp(s, m, 1))

postprocess_conflicts(html, header_map) ==
  Bind(AddHeaderIds(html, header_map), LAMBDA r1 :
  Bind(RestoreBlockquotes(r1), LAMBDA r2 :
  Bind(RestoreBlockDecorations(r2), LAMBDA r3 :
  Bind(RestoreInlinePlugins(r3), LAMBDA r4 :
  Bind(RestoreBlockPlugins(r4), LAMBDA r5 :
    UnwrapPlugins(r5))))))

\* \*\*\*([^*]+)\*\*\*
TRIPLE_STAR_EMPHASIS == <<Lit("***")>> \o Cap(1, <<Plus(NotIn({"*"}))>>) \o <<Lit("***")>>

\* detect_ambiguous_syntax: the warnings, in the order they are pushed
detect_ambiguous_syntax(input) ==
  (IF IsMatch(TRIPLE_STAR_EMPHASIS, input) /\ Contains(input, "'''")
     THEN <<"Detected both ***text*** (Markdown) and '''text''' (LukiWiki). Consider using **text** for Markdown bold-italic.">>
     ELSE <<>>)
  \o (IF Contains(input, "COLOR(") /\ Contains(input, "\n:")
        THEN <<"Detected COLOR() syntax near Markdown definition list. Ensure proper spacing to avoid ambiguity.">>
        ELSE <<>>)

\* ------------------------------------------------------------------------
\* inline_decorations.rs
\* ------------------------------------------------------------------------

\* &color\(([^,)]*?)(?:,([^)]*?))?\)\{([^}]+?)\};
INLINE_COLOR ==
  <<Lit("&color(")>> \o Cap(1, <<LazyStar(NotIn({",", ")"}))>>)
    \o Opt(<<Lit(",")>> \o Cap(2, <<LazyStar(NotIn({")"}))>>))
    \o <<Lit("){")>> \o Cap(3, <<LazyPlus(NotIn({"}"}))>>) \o <<Lit("};")>>

\* &name\(([^)]+?)\)\{([^}]+?)\};
InlineCall2(name) ==
  <<Lit("&" \o name \o "(")>> \o Cap(1, <<LazyPlus(NotIn({")"}))>>)
    \o <<Lit("){")>> \o Cap(2, <<LazyPlus(NotIn({"}"}))>>) \o <<Lit("};")>>

\* &name\(([^)]+?)\);
InlineCall1(name) ==
  <<Lit("&" \o name \o "(")>> \o Cap(1, <<LazyPlus(NotIn({")"}))>>) \o <<Lit(");")>>

INLINE_SIZE == InlineCall2("size")
INLINE_SUP == InlineCall1("sup")
INLINE_SUB == InlineCall1("sub")
INLINE_LANG == InlineCall2("lang")
INLINE_ABBR == InlineCall2("abbr")

\* the closure of the INLINE_COLOR pass
ColorSpan(s, m) ==
  LET fg == Trim(Grp(s, m, 1))
      bg == Trim(Grp(s, m, 2))
      txt == Grp(s, m, 3)
      styles == (IF fg # "" /\ fg # "inherit" THEN <<"color: " \o fg>> ELSE <<>>)
             \o (IF bg # "" /\ bg # "inherit" THEN <<"background-color: " \o bg>> ELSE <<>>)
  IN IF Len(styles) = 0 THEN txt
     ELSE "<span style=\"" \o Join(styles, "; ") \o "\">" \o txt \o "</span>"

\* apply_inline_decorations with templates that leave out the terminating semicolon
apply_inline_decorations_no_semicolon(html) ==
  Bind(ReplaceAll(INLINE_COLOR, html, LAMBDA m, k : ColorSpan(html, m)), LAMBDA r1 :
  Bind(ReplaceAll(INLINE_SIZE, r1, LAMBDA m, k :
         "<span style=\"font-size: " \o Grp(r1, m, 1) \o "rem\">" \o Grp(r1, m, 2) \o "</span>"),
       LAMBDA r2 :
  Bind(ReplaceAll(INLINE_SUP, r2, LAMBDA m, k : "<sup>" \o Grp(r2, m, 1) \o "</sup>"), LAMBDA r3 :
  Bind(ReplaceAll(INLINE_SUB, r3, LAMBDA m, k : "<sub>" \o Grp(r3, m, 1) \o "</sub>"), LAMBDA r4 :
  Bind(ReplaceAll(INLINE_LANG, r4, LAMBDA m, k :
         "<span lang=\"" \o Grp(r4, m, 1) \o "\">" \o Grp(r4, m, 2) \o "</span>"),
       LAMBDA r5 :
    ReplaceAll(INLINE_ABBR, r5, LAMBDA m, k :
      "<abbr title=\"" \o Grp(r5, m, 2) \o "\">" \o Grp(r5, m, 1) \o "</abbr>"))))))

apply_inline_decorations(html) ==
  Bind(ReplaceAll(INLINE_COLOR, html, LAMBDA m, k : ColorSpan(html, m)), LAMBDA r1 :
  Bind(ReplaceAll(INLINE_SIZE, r1, LAMBDA m, k :
         "<span style=\"font-size: " \o Grp(r1, m, 1) \o "rem\">" \o Grp(r1, m, 2) \o "</span>"),
       LAMBDA r2 :
  Bind(ReplaceAll(INLINE_SUP, r2, LAMBDA m, k : "<sup>" \o Grp(r2, m, 1) \o "</sup>;"), LAMBDA r3 :
  Bind(ReplaceAll(INLINE_SUB, r3, LAMBDA m, k : "<sub>" \o Grp(r3, m, 1) \o "</sub>;"), LAMBDA r4 :
  Bind(ReplaceAll(INLINE_LANG, r4, LAMBDA m, k :
         "<span lang=\"" \o Grp(r4, m, 1) \o "\">" \o Grp(r4, m, 2) \o "</span>;"),
       LAMBDA r5 :
    ReplaceAll(INLINE_ABBR, r5, LAMBDA m, k :
      "<abbr title=\"" \o Grp(r5, m, 2) \o "\">" \o Grp(r5, m, 1) \o "</abbr>;"))))))

\* ------------------------------------------------------------------------
\* mod.rs
\* ------------------------------------------------------------------------

\* <pre><code[^>]*>[\s\S]*?</code></pre>
code_block_re ==
  <<Lit("<pre><code"), Star(NotIn({">"})), Lit(">"), LazyStar(AnyChar), Lit("</code></pre>")>>

\* <code[^>]*>[^<]*</code>
inline_code_re == <<Lit("<code"), Star(NotIn({">"})), Lit(">"), Star(NotIn({"<"})), Lit("</code>")>>

\* <!--(CODE_BLOCK|INLINE_CODE)_(\d+)-->
placeholder_re ==
  <<Lit("<!--")>> \o Cap(1, <<Alt(<< <<Lit("CODE_BLOCK")>>, <<Lit("INLINE_CODE")>> >>)>>)
    \o <<Lit("_")>> \o Cap(2, <<Plus(D)>>) \o <<Lit("-->")>>

\* the text of each match, in order (caps[0], which the closure pushes)
MatchTexts(re, s) ==
  Bind(Matches(re, s), LAMBDA ms :
    [k \in 1..Len(ms) |-> SubSeq(s, Start(ms[k]), End(ms[k]) - 1)] @@ <<>>)

\* protect_code_sections: (result, placeholders); a marker carries placeholders.len()
\* at the time of its match, which counts from 0
protect_code_sections(html) ==
  Bind(MatchTexts(code_block_re, html), LAMBDA blocks :
  Bind(ReplaceAll(code_block_re, html, LAMBDA m, k : "<!--CODE_BLOCK_" \o Dec(k - 1) \o "-->"),
       LAMBDA r1 :
  Bind(MatchTexts(inline_code_re, r1), LAMBDA spans :
  Bind(ReplaceAll(inline_code_re, r1,
                  LAMBDA m, k : "<!--INLINE_CODE_" \o Dec(Len(blocks) + k - 1) \o "-->"),
       LAMBDA r2 :
    [result |-> r2, placeholders |-> blocks \o spans]))))

\* usize::MAX on a 64-bit target, in decimal
USIZE_MAX == "18446744073709551615"

\* the digit string without its leading zeros ("" for zero)
StripZeros(ds) ==
  LET nz == { i \in 1..Len(ds) : Char(ds, i) # "0" }
  IN IF nz = {} THEN "" ELSE From(ds, Min(nz))

\* a > b for digit strings of the same length
DigitsGreater(a, b) ==
  LET diff == { i \in 1..Len(a) : Char(a, i) # Char(b, i) }
  IN diff # {} /\ OrdOf[Char(a, Min(diff))] > OrdOf[Char(b, Min(diff))]

\* str::parse::<usize>() fails exactly when the number does not fit in 64 bits
ParseOverflows(ds) ==
  LET d == StripZeros(ds)
  IN Len(d) > Len(USIZE_MAX) \/ (Len(d) = Len(USIZE_MAX) /\ DigitsGreater(d, USIZE_MAX))

\* the value of a short digit string
RECURSIVE DecValue(_)
DecValue(d) ==
  IF d = "" THEN 0 ELSE 10 * DecValue(SubSeq(d, 1, Len(d) - 1)) + (OrdOf[Char(d, Len(d))] - 48)

\* placeholders.get(index).unwrap_or(""): an index of more than MaxIndexDigits digits
\* is past the end of every vector of placeholders here
MaxIndexDigits == 6
GetOrEmpty(placeholders, ds) ==
  LET d == StripZeros(ds)
  IN IF Len(d) > MaxIndexDigits THEN ""
     ELSE IF DecValue(d) < Len(placeholders) THEN placeholders[DecValue(d) + 1] ELSE ""

\* restore_code_sections: unwrap() panics when a marker's index does not parse
restore_code_sections(html, placeholders) ==
  Bind(Matches(placeholder_re, html), LAMBDA ms :
    IF \E k \in 1..Len(ms) : ParseOverflows(Grp(html, ms[k], 2))
    THEN [panic |-> TRUE, result |-> ""]
    ELSE [panic |-> FALSE,
          result |-> Splice(html, ms,
                       [k \in 1..Len(ms) |-> GetOrEmpty(placeholders, Grp(html, ms[k], 2))])])

\* emphasis::apply_lukiwiki_emphasis: three apostrophes around a text make it
\* italic, two make it bold; the italic form is rewritten first
ITALIC == <<Lit("'''")>> \o Cap(1, <<LazyPlus(Dot)>>) \o <<Lit("'''")>>
BOLD == <<Lit("''")>> \o Cap(1, <<LazyPlus(Dot)>>) \o <<Lit("''")>>

apply_lukiwiki_emphasis(html) ==
  Bind(ReplaceAll(ITALIC, html, LAMBDA m, k : "<i>" \o Grp(html, m, 1) \o "</i>"), LAMBDA r1 :
    ReplaceAll(BOLD, r1, LAMBDA m, k : "<b>" \o Grp(r1, m, 1) \o "</b>"))

\* apply_lukiwiki_syntax; its call of postprocess_conflicts passes no heading ids
apply_lukiwiki_syntax(html) ==
  Bind(protect_code_sections(html), LAMBDA p :
  Bind(postprocess_conflicts(p.result, EmptyHeaderMap), LAMBDA r1 :
  Bind(apply_lukiwiki_emphasis(r1), LAMBDA r2 :
  Bind(apply_block_decorations(r2), LAMBDA r3 :
  Bind(apply_inline_decorations(r3), LAMBDA r4 :
    restore_code_sections(r4, p.placeholders))))))

\* ------------------------------------------------------------------------
\* The collaborator: the Markdown renderer that runs between the two passes.
\* It renders an ATX heading line as <hN>title</hN> with no attributes, wraps
\* every paragraph (a run of lines that are neither blank nor headings) in
\* <p>, and leaves {{...}} spans as they are.
\* ------------------------------------------------------------------------

\* (#{1,6})[ \t]+(.+)
atx_heading == <<Bol>> \o Cap(1, <<ClsRep(In({"#"}), 1, 6, TRUE)>>) \o <<Plus(In({" ", "\t"}))>>
                 \o Cap(2, <<Plus(Dot)>>) \o <<Eol>>

IsBlank(line) == Trim(line) = ""

IsHeading(line) == MatchAt(atx_heading, line, 1) # Fail

\* line k is no line of a paragraph: there is no such line, or it is blank or a heading
EndsParagraph(ls, k) == k < 1 \/ k > Len(ls) \/ IsBlank(ls[k]) \/ IsHeading(ls[k])

RenderLine(ls, k) ==
  IF IsBlank(ls[k]) THEN ""
  ELSE Bind(MatchAt(atx_heading, ls[k], 1), LAMBDA m :
         IF m # Fail
         THEN "<h" \o Dec(Len(Grp(ls[k], m, 1))) \o ">" \o Trim(Grp(ls[k], m, 2))
                \o "</h" \o Dec(Len(Grp(ls[k], m, 1))) \o ">"
         ELSE (IF EndsParagraph(ls, k - 1) THEN "<p>" ELSE "") \o ls[k]
                \o (IF EndsParagraph(ls, k + 1) THEN "</p>" ELSE ""))

markdown_to_html(text) ==
  Bind(Lines(text), LAMBDA ls :
  Bind([k \in 1..Len(ls) |-> RenderLine(ls, k)] @@ <<>>, LAMBDA out :
    Join(out, "\n")))

\* ------------------------------------------------------------------------
\* The inputs: wiki source built of whole lines, rendered HTML built of whole
\* elements and text runs
\* ------------------------------------------------------------------------

MaxLines == 2
MaxParts == 2

SourceLines ==
  <<"> a <", ">", "b<", "> q", "# A", "## B {#b}", "&f(a:b){c};", "&f(a){c};",
    "@f(a){{x", "y}}", "COLOR(red): t}}", "@g(b){c}", "COLOR(red): t", "plain", "",
    "&color(red){t};">>

HtmlParts ==
  <<"<h1>a</h1>", "<h1><em>a</em></h1>", "<h2>b</h2>", "CENTER: a <code>x</code>", "<code>x</code>",
    " SIZE(2): b", "<pre><code>SIZE(2): y</code></pre>", "<!--INLINE_CODE_0-->",
    "<!--CODE_BLOCK_99999999999999999999-->", "''c''", "&sup(t);", "\n">>

\* every sequence of 1..n indices into a list of k items
IndexSeqs(k, n) == UNION { [1..len -> 1..k] : len \in 1..n }

\* documents of lines of SourceLines, lines that hold one construct in another,
\* decoration lines, inline plugins with braces in their content, and a
\* heading with an id or a blockquote line followed by a blank line
Docs ==
  { Join([i \in DOMAIN ix |-> SourceLines[ix[i]]], "\n") : ix \in IndexSeqs(Len(SourceLines), MaxLines) }
    \cup { "> &f(a){c}; <", "@f(a){{ &g(b){c}; }}", "TRUNCATE: t", "JUSTIFY: t", "TOP: t", "SIZE(2): t",
           "CENTER: t", "&f(a){p {q} r};", "&f(a){x { y};", "&a(x){p {q {r} s} t};",
           "&a(x){1 &b(y){2 &c(z){3}; 2}; 1};", "## B {#b}\n\nplain", "> a <\n\nplain" }

Htmls ==
  { ConcatAll([i \in DOMAIN ix |-> HtmlParts[ix[i]]]) : ix \in IndexSeqs(Len(HtmlParts), MaxParts) }
    \cup { "<code a=\"<pre><code>x</code></pre>\">y</code>" }

\* the components of a COLOR(fg,bg) prefix or a &color(fg,bg) call
ColorComponents == {"", "inherit", " inherit ", "red", "primary"}

ColorPrefixLine(fg, bg) == "COLOR(" \o fg \o "," \o bg \o "): t"

ColorCall(fg, bg) == "&color(" \o fg \o "," \o bg \o "){t};"

\* the prefixes of a decoration line, "" for a prefix that is left out
DecorationChoices ==
  [size : {"", "1.5", "3"}, fg : {"", "primary", "red"}, bg : {"", "dark", "blue"},
   truncate : BOOLEAN, valign : {"", "TOP"}, align : {"", "CENTER"}]

\* the line that carries the prefixes of c in the order SIZE, COLOR, TRUNCATE,
\* vertical alignment, alignment
PrefixedLine(c) ==
  (IF c.size # "" THEN "SIZE(" \o c.size \o "): " ELSE "")
    \o (IF c.bg # "" THEN "COLOR(" \o c.fg \o "," \o c.bg \o "): "
        ELSE IF c.fg # "" THEN "COLOR(" \o c.fg \o "): " ELSE "")
    \o (IF c.truncate THEN "TRUNCATE: " ELSE "")
    \o (IF c.valign # "" THEN c.valign \o ": " ELSE "")
    \o (IF c.align # "" THEN c.align \o ": " ELSE "")
    \o "Styled text"

\* texts that hold inline calls without braces or with them, and text around them
InlinePieces ==
  <<"&sup(t);", "&sub(t);", "&lang(l){t};", "&abbr(t){d};", "a (b); {c} &amp;", "&sup(2)", "\n">>

InlineText(ix) == ConcatAll([i \in DOMAIN ix |-> InlinePieces[ix[i]]])

\* color values: palette names, plain and suffixed, and other values
ColorValues ==
  {"primary", "danger-subtle", "dark-emphasis", "body-secondary", "red", "#FF0000",
   "primary-foo", "text-red", "bg-blue"}

\* one prefix of each kind: size, color, truncate, vertical alignment,
\* horizontal alignment, in the order parse_prefixes extracts them
PrefixKinds == <<"SIZE(2): ", "COLOR(red): ", "TRUNCATE: ", "TOP: ", "CENTER: ">>

\* the chains of prefixes of distinct kinds, in every order
PrefixChains ==
  { ch \in UNION { [1..n -> 1..Len(PrefixKinds)] : n \in 1..Len(PrefixKinds) } :
      \A i \in DOMAIN ch, j \in DOMAIN ch : i # j => ch[i] # ch[j] }

ChainLine(ch) == ConcatAll([i \in DOMAIN ch |-> PrefixKinds[ch[i]]]) \o "t"

\* the prefixes of ch stand in the order size, color, truncate, vertical
\* alignment, horizontal alignment
InExtractionOrder(ch) == \A i \in DOMAIN ch, j \in DOMAIN ch : i < j => ch[i] < ch[j]

\* free-form contents that hold text shaped like a prefix
FreeContents == {"a SIZE(2): b", "a COLOR(red): b", "a TRUNCATE: b", "a TOP: b", "a CENTER: b"}

\* the prefixes of ch followed by the content c
ContentLine(ch, c) == ConcatAll([i \in DOMAIN ch |-> PrefixKinds[ch[i]]]) \o c

\* short texts handed to one operation alone: decoration-prefixed lines for
\* apply_block_decorations, calls for apply_inline_decorations, markup for
\* detect_ambiguous_syntax
Fragments ==
  { ColorPrefixLine(fg, bg) : fg \in ColorComponents, bg \in ColorComponents }
    \cup { "COLOR(" \o fg \o "): t" : fg \in ColorComponents }
    \cup { ColorCall(fg, bg) : fg \in ColorComponents, bg \in ColorComponents }
    \cup { "&color(" \o fg \o "){t};" : fg \in ColorComponents }
    \cup { PrefixedLine(c) : c \in DecorationChoices }
    \cup { ChainLine(ch) : ch \in PrefixChains }
    \cup { ContentLine(ch, c) : ch \in { x \in PrefixChains : InExtractionOrder(x) },
                               c \in FreeContents }
    \cup { "COLOR(" \o v \o "): t" : v \in ColorValues }
    \cup { "COLOR(," \o v \o "): t" : v \in ColorValues }
    \cup { InlineText(ix) : ix \in IndexSeqs(Len(InlinePieces), MaxParts) }
    \cup { "***a*** '''b'''", "***a***", "'''b''' ******", "COLOR(red): t\n: d", ": d\nCOLOR(red): t",
           "t\n: d\nCOLOR(red): t",
           "t\n: d", ": COLOR(", "'''b'''\n***a***\nCOLOR(x)\n\n:d" }

\* the heading ids a caller may hand to postprocess_conflicts with rendered HTML
HeaderMaps == { EmptyHeaderMap, (1 :> "top"), (2 :> "b") }

\* ------------------------------------------------------------------------
\* The state machine
\* ------------------------------------------------------------------------

VARIABLES
  pc,            \* what the text is: a stage's input or its result
  input,         \* the text the run started from
  text,          \* the current text
  header_map,    \* HeaderIdMap
  placeholders,  \* the code sections protect_code_sections took out
  renderer,      \* which renderer ran between the two passes
  warnings       \* what detect_ambiguous_syntax returned

vars == <<pc, input, text, header_map, placeholders, renderer, warnings>>

InitDoc ==
  /\ pc = "doc"
  /\ input \in Docs
  /\ header_map = EmptyHeaderMap

InitHtml ==
  /\ pc = "html"
  /\ input \in Htmls
  /\ header_map \in HeaderMaps

InitFragment ==
  /\ pc = "fragment"
  /\ input \in Fragments
  /\ header_map = EmptyHeaderMap

Init ==
  /\ InitFragment \/ InitDoc \/ InitHtml
  /\ text = input
  /\ placeholders = <<>>
  /\ renderer = "none"
  /\ warnings = <<>>

\* preprocess_conflicts(input)
Preprocess ==
  /\ pc = "doc"
  /\ \E r \in {preprocess_conflicts(text)} :
        /\ text' = r.result
        /\ header_map' = r.header_map
  /\ pc' = "protected"
  /\ UNCHANGED <<input, placeholders, renderer, warnings>>

\* the renderer between the passes
Render ==
  /\ pc = "protected"
  /\ text' = markdown_to_html(text)
  /\ renderer' = "markdown"
  /\ pc' = "rendered"
  /\ UNCHANGED <<input, header_map, placeholders, warnings>>

\* no renderer between the passes: postprocess_conflicts(&preprocessed, &header_map)
SkipRender ==
  /\ pc = "protected"
  /\ renderer' = "noop"
  /\ pc' = "rendered"
  /\ UNCHANGED <<input, text, header_map, placeholders, warnings>>

\* postprocess_conflicts(html, header_map)
Postprocess ==
  /\ pc \in {"rendered", "html"}
  /\ text' = postprocess_conflicts(text, header_map)
  /\ pc' = "restored"
  /\ UNCHANGED <<input, header_map, placeholders, renderer, warnings>>

\* apply_block_decorations(html)
BlockDecorations ==
  /\ pc \in {"html", "fragment"}
  /\ text' = apply_block_decorations(text)
  /\ pc' = "block_decorated"
  /\ UNCHANGED <<input, header_map, placeholders, renderer, warnings>>

\* apply_inline_decorations(html), on rendered HTML or, as apply_lukiwiki_syntax
\* orders it, on the result of postprocess_conflicts
InlineDecorations ==
  /\ pc \in {"html", "fragment", "restored"}
  /\ text' = apply_inline_decorations(text)
  /\ pc' = IF pc = "restored" THEN "decorated" ELSE "inline_decorated"
  /\ UNCHANGED <<input, header_map, placeholders, renderer, warnings>>

\* protect_code_sections(html)
ProtectCode ==
  /\ pc = "html"
  /\ \E p \in {protect_code_sections(text)} :
        /\ text' = p.result
        /\ placeholders' = p.placeholders
  /\ pc' = "guarded"
  /\ UNCHANGED <<input, header_map, renderer, warnings>>

\* restore_code_sections(html, placeholders)
RestoreCode ==
  /\ pc = "guarded"
  /\ \E r \in {restore_code_sections(text, placeholders)} :
        /\ text' = r.result
        /\ pc' = IF r.panic THEN "panicked" ELSE "unguarded"
  /\ UNCHANGED <<input, header_map, placeholders, renderer, warnings>>

\* apply_lukiwiki_syntax(html)
ApplyLukiwikiSyntax ==
  /\ pc = "html"
  /\ \E r \in {apply_lukiwiki_syntax(text)} :
        /\ text' = r.result
        /\ pc' = IF r.panic THEN "panicked" ELSE "final"
  /\ UNCHANGED <<input, header_map, placeholders, renderer, warnings>>

\* detect_ambiguous_syntax(input)
DetectAmbiguous ==
  /\ pc \in {"doc", "fragment"}
  /\ warnings' = detect_ambiguous_syntax(text)
  /\ pc' = "diagnosed"
  /\ UNCHANGED <<input, text, header_map, placeholders, renderer>>

Next ==
  \/ DetectAmbiguous
  \/ Preprocess
  \/ Render
  \/ SkipRender
  \/ Postprocess
  \/ BlockDecorations
  \/ InlineDecorations
  \/ ProtectCode
  \/ RestoreCode
  \/ ApplyLukiwikiSyntax

Spec == Init /\ [][Next]_vars

\* the operations that take a short text, run on the fragments alone
FragmentInit ==
  /\ InitFragment
  /\ text = input
  /\ placeholders = <<>>
  /\ renderer = "none"
  /\ warnings = <<>>

FragmentNext ==
  \/ DetectAmbiguous
  \/ BlockDecorations
  \/ InlineDecorations

FragmentSpec == FragmentInit /\ [][FragmentNext]_vars

\* ------------------------------------------------------------------------
\* The claims
\* ------------------------------------------------------------------------

EndsWith(s, p) == Len(p) <= Len(s) /\ SubSeq(s, Len(s) - Len(p) + 1, Len(s)) = p

\* the positions at which p occurs in s
Occurrences(s, p) == { i \in 1..Len(s) : At(s, i, p) }

IsLineOf(l, s) == \E k \in 1..Len(Lines(s)) : Lines(s)[k] = l

PlaceholderKinds == <<"LUKIWIKI_BLOCKQUOTE", "BLOCK_DECORATION", "INLINE_PLUGIN", "BLOCK_PLUGIN">>

HasPlaceholderToken(s) ==
  \E k \in 1..Len(PlaceholderKinds) :
    Contains(s, "{{" \o PlaceholderKinds[k] \o ":") \/ Contains(s, ":" \o PlaceholderKinds[k] \o "}}")

\* balanced, correctly formed wiki constructs and plain lines
WellFormedItems ==
  <<"> a <", "COLOR(red): t", "&f(a){c};", "&f(a:b){c};", "@g(b){c}", "@f(a){{x\ny}}",
    "@f(a){{x\nCOLOR(red): t}}", "# A", "## B {#b}", "plain", "">>

WellFormedDocs ==
  { Join([i \in DOMAIN ix |-> WellFormedItems[ix[i]]], "\n") :
      ix \in IndexSeqs(Len(WellFormedItems), MaxLines) }

\* C1: for every input of balanced, correctly formed wiki syntax, preprocess_conflicts,
\* then the renderer, then postprocess_conflicts leave no placeholder token of any
\* kind in the output.
C1_NoPlaceholderSurvives ==
  (pc = "restored" /\ renderer = "markdown" /\ input \in WellFormedDocs)
    => ~HasPlaceholderToken(text)

QuoteToken(inner) == "{{LUKIWIKI_BLOCKQUOTE:" \o inner \o ":LUKIWIKI_BLOCKQUOTE}}"

\* a line that begins with > and ends with <
IsWikiQuoteLine(l) == Len(l) >= 2 /\ StartsWith(l, ">") /\ EndsWith(l, "<")

InnerText(l) == Trim(SubSeq(l, 2, Len(l) - 1))

\* a line that begins with >, does not end with < and holds no other wiki syntax
IsMarkdownQuoteLine(l) ==
  /\ StartsWith(l, ">") /\ ~EndsWith(l, "<")
  /\ ~Contains(l, "&") /\ ~Contains(l, "@") /\ ~Contains(l, "{") /\ ~Contains(l, "}")

\* C2: preprocess_conflicts replaces every line that begins with > and ends with <
\* by the LUKIWIKI_BLOCKQUOTE token of its trimmed inner text, postprocess_conflicts
\* turns that token into <blockquote class="lukiwiki">inner</blockquote>, and
\* preprocess_conflicts leaves every line that begins with > and does not end with <
\* as it is.
C2_BlockquoteLines ==
  /\ pc = "protected" =>
       \A k \in 1..Len(Lines(input)) :
         /\ IsWikiQuoteLine(Lines(input)[k])
              => IsLineOf(QuoteToken(InnerText(Lines(input)[k])), text)
         /\ IsMarkdownQuoteLine(Lines(input)[k]) => IsLineOf(Lines(input)[k], text)
  /\ (pc = "restored" /\ renderer \in {"markdown", "noop"}) =>
       \A k \in 1..Len(Lines(input)) :
         IsWikiQuoteLine(Lines(input)[k])
           => Contains(text, "<blockquote class=\"lukiwiki\">" \o InnerText(Lines(input)[k])
                               \o "</blockquote>")

\* no {#id} heading suffix, no > ... < line, no decoration prefix and no plugin sigil
NoWikiSyntax(s) ==
  /\ ~Contains(s, "{#") /\ ~Contains(s, "&") /\ ~Contains(s, "@")
  /\ \A k \in 1..Len(Lines(s)) :
       ~IsWikiQuoteLine(Lines(s)[k]) /\ ~HasDecorationPrefix(Lines(s)[k])

\* C3: for every input without wiki-specific prefix or sigil, preprocess_conflicts
\* returns the input unchanged with an empty heading-id map, and
\* postprocess_conflicts applied to that text with that map returns it unchanged.
C3_IdentityOnPlainText ==
  /\ (pc = "protected" /\ NoWikiSyntax(input)) => (text = input /\ header_map = EmptyHeaderMap)
  /\ (pc = "restored" /\ renderer = "noop" /\ NoWikiSyntax(input)) => text = input

\* the number of # a line begins with
LeadingHashes(l) == Min({ i \in 1..(Len(l) + 1) : i = Len(l) + 1 \/ Char(l, i) # "#" }) - 1

\* an ATX heading line: one to six #, white space, a title
IsHeadingLine(l) ==
  /\ LeadingHashes(l) \in 1..6
  /\ Len(l) > LeadingHashes(l)
  /\ Char(l, LeadingHashes(l) + 1) \in {" ", "\t"}
  /\ Trim(From(l, LeadingHashes(l) + 1)) # ""

\* a heading line that ends with {#id}
HasExplicitId(l) == IsHeadingLine(l) /\ Occurrences(l, " {#") # {} /\ EndsWith(TrimEnd(l), "}")

ExplicitId(l) == SubSeq(l, Max(Occurrences(l, " {#")) + 3, Len(TrimEnd(l)) - 1)

\* the 1-based ordinal of line k among all the heading lines
HeadingOrdinal(ls, k) == Cardinality({ j \in 1..k : IsHeadingLine(ls[j]) })

\* C4: the heading-id map of preprocess_conflicts holds exactly k -> id for every
\* heading line that carries {#id}, k being the ordinal of the line among all the
\* heading lines of the document, with or without an id.
C4_HeaderMapKeyedByHeadingOrdinal ==
  pc = "protected" =>
    /\ DOMAIN header_map
         = { HeadingOrdinal(Lines(input), k) :
               k \in { j \in 1..Len(Lines(input)) : HasExplicitId(Lines(input)[j]) } }
    /\ \A k \in 1..Len(Lines(input)) :
         HasExplicitId(Lines(input)[k])
           => header_map[HeadingOrdinal(Lines(input), k)] = ExplicitId(Lines(input)[k])

\* the positions of the opening tags <h1> .. <h6>, in document order
HeadingOpens(s) == Sorted({ p \in 1..Len(s) : \E n \in Chars("123456") : At(s, p, "<h" \o n \o ">") })

AnchorOf(id) == "<a href=\"#" \o id \o "\" aria-hidden=\"true\" class=\"anchor\" id=\"" \o id \o "\"></a>"

ExpectedId(k) == IF k \in DOMAIN header_map THEN header_map[k] ELSE "heading-" \o Dec(k)

\* C5: postprocess_conflicts numbers the heading elements in document order with one
\* counter for all levels; the anchor of the k-th heading carries the identifier the
\* map has for k, or heading-k.
C5_AnchorIdByDocumentOrder ==
  pc = "restored" =>
    \A k \in 1..Len(HeadingOpens(text)) :
      At(text, HeadingOpens(text)[k] + 4, "<a href=\"#")
        => At(text, HeadingOpens(text)[k] + 4, AnchorOf(ExpectedId(k)))

\* the identifier the anchor at position q names
AnchorIdAt(s, q) ==
  SubSeq(s, q + 10, Min({ i \in (q + 10)..(Len(s) + 1) : i = Len(s) + 1 \/ Char(s, i) = "\"" }) - 1)

\* C6: in the output of postprocess_conflicts every <h1> .. <h6> element has, directly
\* after its opening tag, an anchor <a href="#id" aria-hidden="true" class="anchor"
\* id="id"></a>, whatever its title contains.
C6_EveryHeadingHasAnchor ==
  pc = "restored" =>
    \A k \in 1..Len(HeadingOpens(text)) :
      /\ At(text, HeadingOpens(text)[k] + 4, "<a href=\"#")
      /\ At(text, HeadingOpens(text)[k] + 4, AnchorOf(AnchorIdAt(text, HeadingOpens(text)[k] + 4)))

\* the container the claim describes for function f, arguments a and content c
ContainerOf(tag, f, a, c) ==
  "<" \o tag \o " class=\"plugin-" \o f \o "\" data-args=\"" \o encode_double_quoted_attribute(a)
      \o "\">" \o ReplaceChar(ReplaceChar(c, "<", "&lt;"), ">", "&gt;") \o "</" \o tag \o ">"

\* the input is one invocation the pattern accepts, and the output holds its container
InvocationRestored(pattern, tag) ==
  \A m \in {MatchAt(pattern, input, 1)} :
    (m # Fail /\ End(m) = Len(input) + 1)
      => Contains(text, ContainerOf(tag, Grp(input, m, 1), Grp(input, m, 2), Grp(input, m, 3)))

\* C7: for every plugin invocation the protect patterns accept, protect then restore
\* emit one container (span for the inline form, div for the block forms) with
\* class plugin-f, data-args the attribute-escaped a, and the body c with only < and >
\* escaped.
C7_PluginRoundTrip ==
  (pc = "restored" /\ renderer \in {"markdown", "noop"}) =>
    /\ InvocationRestored(inline_plugin, "span")
    /\ InvocationRestored(block_plugin_multi, "div")
    /\ (MatchAt(block_plugin_multi, input, 1) = Fail => InvocationRestored(block_plugin_single, "div"))

\* every token of the kind in s has three fields free of the delimiters, and the
\* restore pattern of the kind matches it
TokensWellFormed(s, kind, marker) ==
  \A p \in Occurrences(s, "{{" \o kind \o ":") :
    \A ends \in {{ e \in Occurrences(s, ":" \o kind \o "}}") : e > p }} :
      /\ ends # {}
      /\ \A body \in {SubSeq(s, p + Len(kind) + 3, Min(ends) - 1)} :
           /\ Cardinality(Occurrences(body, ":")) = 2
           /\ ~Contains(body, "{{") /\ ~Contains(body, "}}")
      /\ MatchAt(marker, s, p) # Fail

\* C8: in every INLINE_PLUGIN and BLOCK_PLUGIN token preprocess_conflicts emits, no
\* field (function name, argument string, encoded content) contains a colon or a
\* double brace, and the restore pattern of the kind matches the token.
C8_TokenFieldsFreeOfDelimiters ==
  pc = "protected" =>
    /\ TokensWellFormed(text, "INLINE_PLUGIN", inline_plugin_marker)
    /\ TokensWellFormed(text, "BLOCK_PLUGIN", block_plugin_marker)

\* the code blocks and code spans of s, in document order
CodeSections(s) == MatchTexts(<<Alt(<<code_block_re, inline_code_re>>)>>, s)

\* the sections k.. occur in s from position from on, one after the other
RECURSIVE OccurInOrder(_, _, _, _)
OccurInOrder(secs, k, s, from) ==
  IF k > Len(secs) THEN TRUE
  ELSE \A hits \in {{ i \in from..Len(s) : At(s, i, secs[k]) }} :
         hits # {} /\ OccurInOrder(secs, k + 1, s, Min(hits) + Len(secs[k]))

\* C9: every <pre><code> block and every <code> span of the HTML given to
\* apply_lukiwiki_syntax is in its output byte for byte, in the same order.
C9_CodeSectionsKept ==
  pc = "final" => OccurInOrder(CodeSections(input), 1, text, 1)

\* C10: no input makes a stage abort: preprocess_conflicts, postprocess_conflicts,
\* the decoration passes, protect_code_sections and restore_code_sections return a
\* result for every text, also for text that holds comments of the marker shape
\* with any digit string.
C10_NoStageAborts == pc # "panicked"
\* the inline decoration calls of s that take a braced text
BracedDecorationCalls(s) ==
  MatchTexts(INLINE_COLOR, s) \o MatchTexts(INLINE_SIZE, s)
    \o MatchTexts(INLINE_LANG, s) \o MatchTexts(INLINE_ABBR, s)

\* C11: in the pipeline preprocess_conflicts, renderer, postprocess_conflicts,
\* apply_inline_decorations, every &color(..){..}; &size(..){..}; &lang(..){..};
\* and &abbr(..){..}; call of the input ends as the element that
\* apply_inline_decorations alone makes of it
C11_InlineDecorationsSurvivePipeline ==
  (pc = "decorated" /\ renderer \in {"markdown", "noop"}) =>
    \A k \in 1..Len(BracedDecorationCalls(input)) :
      Contains(text, apply_inline_decorations(BracedDecorationCalls(input)[k]))

\* a color component that is dropped
Dropped(c) == Trim(c) \in {"", "inherit"}

\* the paragraphs that carry the one color v, as a class or as a style
OneColorParagraphs(cls, prop, v) ==
  { "<p class=\"" \o cls \o "-" \o Trim(v) \o "\">t</p>",
    "<p style=\"" \o prop \o ": " \o Trim(v) \o "\">t</p>" }

BlockColorDropsInherit(fg, bg) ==
  (pc = "block_decorated" /\ input = ColorPrefixLine(fg, bg)) =>
    /\ (Dropped(fg) /\ Dropped(bg)) => text = "<p>t</p>"
    /\ (Dropped(fg) /\ ~Dropped(bg)) => text \in OneColorParagraphs("bg", "background-color", bg)
    /\ (~Dropped(fg) /\ Dropped(bg)) => text \in OneColorParagraphs("text", "color", fg)

InlineColorDropsInherit(fg, bg) ==
  (pc = "inline_decorated" /\ input = ColorCall(fg, bg)) =>
    /\ (Dropped(fg) /\ Dropped(bg)) => text = "t"
    /\ (Dropped(fg) /\ ~Dropped(bg)) =>
         text = "<span style=\"background-color: " \o Trim(bg) \o "\">t</span>"
    /\ (~Dropped(fg) /\ Dropped(bg)) =>
         text = "<span style=\"color: " \o Trim(fg) \o "\">t</span>"

\* C12: an empty or inherit color component gives neither class nor style:
\* COLOR(fg,bg): t with both dropped becomes <p>t</p>, &color(fg,bg){t}; with
\* both dropped becomes t, and with one dropped the other is still applied
C12_InheritAndEmptyColorsDropped ==
  \A fg \in ColorComponents, bg \in ColorComponents :
    BlockColorDropsInherit(fg, bg) /\ InlineColorDropsInherit(fg, bg)

\* a block line and an inline call with inherit in one component have been decorated
C12_Witness ==
  \/ pc = "block_decorated" /\ input = ColorPrefixLine("inherit", "red")
       /\ text = "<p style=\"background-color: red\">t</p>"
  \/ pc = "inline_decorated" /\ input = ColorCall(" inherit ", "")  /\ text = "t"

\* the class tokens of the choices c in the order alignment, truncate,
\* vertical alignment, size, foreground, background
ExpectedClasses(c) ==
     (IF c.align = "CENTER" THEN <<"text-center">> ELSE <<>>)
  \o (IF c.truncate THEN <<"text-truncate">> ELSE <<>>)
  \o (IF c.valign = "TOP" THEN <<"align-top">> ELSE <<>>)
  \o (IF c.size = "1.5" THEN <<"fs-4">> ELSE <<>>)
  \o (IF c.fg = "primary" THEN <<"text-primary">> ELSE <<>>)
  \o (IF c.bg = "dark" THEN <<"bg-dark">> ELSE <<>>)

\* the style values of the choices c in the order size, foreground, background
ExpectedStyles(c) ==
     (IF c.size = "3" THEN <<"font-size: 3rem">> ELSE <<>>)
  \o (IF c.fg = "red" THEN <<"color: red">> ELSE <<>>)
  \o (IF c.bg = "blue" THEN <<"background-color: blue">> ELSE <<>>)

ExpectedParagraph(c) ==
  "<p"
    \o (IF Len(ExpectedClasses(c)) > 0 THEN " class=\"" \o Join(ExpectedClasses(c), " ") \o "\"" ELSE "")
    \o (IF Len(ExpectedStyles(c)) > 0 THEN " style=\"" \o Join(ExpectedStyles(c), "; ") \o "\"" ELSE "")
    \o ">Styled text</p>"

\* C13: apply_block_decorations emits one <p> whose class attribute lists the
\* classes space-joined in the order alignment, truncate, vertical alignment,
\* size, foreground, background, and whose style attribute lists the other
\* values in the order size, foreground, background; an attribute with
\* nothing to list is left out
C13_ClassAndStyleOrder ==
  pc = "block_decorated" =>
    \A c \in DecorationChoices :
      (input = PrefixedLine(c) /\ HasDecorationPrefix(input)) => text = ExpectedParagraph(c)

\* the compound line of the documentation has been decorated
C13_Witness ==
  /\ pc = "block_decorated"
  /\ input = "SIZE(1.5): COLOR(primary): CENTER: Styled text"
  /\ text = "<p class=\"text-center fs-4 text-primary\">Styled text</p>"

\* s holds a span of three stars, text without a star, three stars
HasTripleStarSpan(s) ==
  \E i \in 1..Len(s), j \in 1..Len(s) :
    /\ j >= i + 4
    /\ At(s, i, "***") /\ At(s, j, "***")
    /\ \A k \in (i + 3)..(j - 1) : ~At(s, k, "*")

\* a line of s holds COLOR( and a later line of s starts with a colon
ColorBeforeDefinitionLine(s) ==
  \E i \in 1..Len(SplitLF(s)), j \in 1..Len(SplitLF(s)) :
    /\ i < j
    /\ Contains(SplitLF(s)[i], "COLOR(")
    /\ StartsWith(SplitLF(s)[j], ":")

IsEmphasisWarning(w) == StartsWith(w, "Detected both ***text***")

IsColorWarning(w) == StartsWith(w, "Detected COLOR() syntax")

\* C14: detect_ambiguous_syntax returns the triple-emphasis warning exactly
\* when the input holds a ***text*** span and a triple-quote marker, the COLOR
\* warning exactly when the input holds COLOR( and a line starting with a colon
\* follows it, the emphasis warning first, and nothing else
C14_AmbiguityWarnings ==
  pc = "diagnosed" =>
    /\ (\E k \in 1..Len(warnings) : IsEmphasisWarning(warnings[k]))
          <=> (HasTripleStarSpan(input) /\ Contains(input, "'''"))
    /\ (\E k \in 1..Len(warnings) : IsColorWarning(warnings[k]))
          <=> ColorBeforeDefinitionLine(input)
    /\ \A k \in 1..Len(warnings) : IsEmphasisWarning(warnings[k]) \/ IsColorWarning(warnings[k])
    /\ Len(warnings) = 2 => IsEmphasisWarning(warnings[1])
    /\ Len(warnings) <= 2

\* what each of InlinePieces is to become: the element followed by the
\* semicolon for a call, the piece itself for other text
InlinePiecesRewritten ==
  <<"<sup>t</sup>;", "<sub>t</sub>;", "<span lang=\"l\">t</span>;", "<abbr title=\"d\">t</abbr>;",
    "a (b); {c} &amp;", "&sup(2)", "\n">>

InlineTextRewritten(ix) == ConcatAll([i \in DOMAIN ix |-> InlinePiecesRewritten[ix[i]]])

\* C15: apply_inline_decorations rewrites every &sup(t); &sub(t); &lang(l){t};
\* and &abbr(t){d}; of its input to the element followed by the semicolon and
\* leaves the text outside the calls as it is
C15_SupSubLangAbbr ==
  pc = "inline_decorated" =>
    \A ix \in IndexSeqs(Len(InlinePieces), MaxParts) :
      input = InlineText(ix) => text = InlineTextRewritten(ix)

\* an abbreviation call after other text has been rewritten
C15_Witness ==
  /\ pc = "inline_decorated"
  /\ input = "a (b); {c} &amp;&abbr(t){d};"
  /\ text = "a (b); {c} &amp;<abbr title=\"d\">t</abbr>;"

\* the payloads of the tokens of a kind in s: the text between the opening
\* delimiter and the next closing delimiter of the kind
Payloads(s, kind) ==
  { SubSeq(s, p + Len(kind) + 3, Min({ e \in Occurrences(s, ":" \o kind \o "}}") : e > p }) - 1) :
      p \in { q \in Occurrences(s, "{{" \o kind \o ":") :
                \E e \in Occurrences(s, ":" \o kind \o "}}") : e > q } }

\* the contents that the plugin tokens of s carry encoded
EncodedContents(s, marker) ==
  { DecodeOrRaw(Grp(s, Matches(marker, s)[k], 3)) : k \in 1..Len(Matches(marker, s)) }

HoldsTokenText(x) ==
  \E k \in 1..Len(PlaceholderKinds) : Contains(x, "{{" \o PlaceholderKinds[k] \o ":")

\* C16: after the wrap steps of preprocess_conflicts no placeholder token holds
\* text of another placeholder token in its payload, raw or encoded: no step
\* matched text inside a token of an earlier step
C16_NoTokenInsideToken ==
  pc = "protected" =>
    /\ \A k \in 1..Len(PlaceholderKinds) :
         \A payload \in Payloads(text, PlaceholderKinds[k]) : ~HoldsTokenText(payload)
    /\ \A content \in EncodedContents(text, inline_plugin_marker) \cup EncodedContents(text, block_plugin_marker) :
         ~HoldsTokenText(content)

\* a line that starts with a prefix apply_block_decorations recognizes and
\* goes on with content after the colon
IsDecorationLine(line) ==
  /\ HasDecorationPrefix(line)
  /\ \E i \in 1..Len(line) : At(line, i, ":") /\ Trim(From(line, i + 1)) # ""

\* s holds no plugin sigil and no blockquote marker
NoPluginOrQuote(s) == ~Contains(s, "@") /\ ~Contains(s, "&") /\ ~Contains(s, ">")

\* C17: preprocess_conflicts wraps in a BLOCK_DECORATION token every line that
\* starts with a prefix apply_block_decorations recognizes (SIZE, COLOR,
\* TRUNCATE, TOP, MIDDLE, BOTTOM, BASELINE, JUSTIFY, RIGHT, CENTER, LEFT) and is
\* followed by content
C17_DecorationLinesWrapped ==
  (pc = "protected" /\ NoPluginOrQuote(input)) =>
    \A k \in 1..Len(Lines(input)) :
      IsDecorationLine(Lines(input)[k]) =>
        IsLineOf("{{BLOCK_DECORATION:" \o Lines(input)[k] \o ":BLOCK_DECORATION}}", text)

\* s is one inline invocation from its sigil to its terminator
IsInlineInvocation(s) ==
  /\ MatchAt(<<Lit("&"), Plus(W), Lit("("), Star(NotIn({")"})), Lit("){")>>, s, 1) # Fail
  /\ EndsWith(s, "};")

\* the content of the inline invocation s: what stands between the brace that
\* follows the arguments and the terminator
InvocationContent(s) == SubSeq(s, Min(Occurrences(s, "){")) + 2, Len(s) - 2)

\* how many braces are open after the first i characters of s
BraceDepth(s, i) ==
  Cardinality({ j \in 1..i : At(s, j, "{") }) - Cardinality({ j \in 1..i : At(s, j, "}") })

BracesBalanced(s) == BraceDepth(s, Len(s)) = 0 /\ \A i \in 1..Len(s) : BraceDepth(s, i) >= 0

NestsDeeperThanOne(s) == \E i \in 1..Len(s) : BraceDepth(s, i) > 1

\* C18: an inline invocation whose content has unbalanced braces, or braces
\* nested more than one level deep, is not wrapped: preprocess_conflicts makes
\* no INLINE_PLUGIN token from any part of it and returns it as literal text
C18_InlinePluginBraceNesting ==
  (pc = "protected" /\ IsInlineInvocation(input)
     /\ (~BracesBalanced(InvocationContent(input)) \/ NestsDeeperThanOne(InvocationContent(input)))) =>
    (~Contains(text, "{{INLINE_PLUGIN:") /\ text = input)

\* s is one block plugin invocation and nothing else, with no other wiki
\* syntax in its content
IsLoneBlockInvocation(s) ==
  /\ \/ \E m \in {MatchAt(block_plugin_multi, s, 1)} : m # Fail /\ End(m) = Len(s) + 1
     \/ \E m \in {MatchAt(block_plugin_single, s, 1)} : m # Fail /\ End(m) = Len(s) + 1
  /\ ~Contains(s, "COLOR(") /\ ~Contains(s, "&") /\ ~Contains(s, ">")

\* C19: when the renderer wrapped a BLOCK_PLUGIN token alone in a paragraph,
\* postprocess_conflicts emits the container without the paragraph tags around
\* it, also for content of several lines
C19_BlockPluginNotInParagraph ==
  (pc = "restored" /\ renderer = "markdown" /\ IsLoneBlockInvocation(input)) =>
    /\ StartsWith(text, "<div class=\"plugin-")
    /\ EndsWith(text, "</div>")
    /\ ~Contains(text, "<p>") /\ ~Contains(text, "</p>")

\* the names of the palette
PaletteNames ==
  {"primary", "secondary", "success", "danger", "warning", "info", "light", "dark",
   "body", "body-secondary", "body-tertiary", "body-emphasis"}

\* a palette name, as it is or with the suffix -subtle or -emphasis
IsPaletteColor(v) ==
  \E name \in PaletteNames : v \in {name, name \o "-subtle", name \o "-emphasis"}

\* C20: in a block COLOR(fg,bg) prefix a value becomes the class text-value or
\* bg-value exactly when it is a palette name, plain or suffixed -subtle or
\* -emphasis; every other value becomes the style color: value or
\* background-color: value and never a class
C20_PaletteClassOtherwiseStyle ==
  pc = "block_decorated" =>
    \A v \in ColorValues :
      /\ input = "COLOR(" \o v \o "): t" =>
           text = IF IsPaletteColor(v) THEN "<p class=\"text-" \o v \o "\">t</p>"
                  ELSE "<p style=\"color: " \o v \o "\">t</p>"
      /\ input = "COLOR(," \o v \o "): t" =>
           text = IF IsPaletteColor(v) THEN "<p class=\"bg-" \o v \o "\">t</p>"
                  ELSE "<p style=\"background-color: " \o v \o "\">t</p>"

\* what the paragraph carries for each of PrefixKinds
PrefixAttributes == <<"fs-2", "color: red", "text-truncate", "align-top", "text-center">>

\* the paragraph made of the chain ch has the content t alone and carries the
\* attribute of every prefix of ch
ChainDecorated(ch) ==
  /\ StartsWith(text, "<p ") /\ EndsWith(text, ">t</p>")
  /\ \A i \in DOMAIN ch : Contains(text, PrefixAttributes[ch[i]])

HasCodeMarker(s) == IsMatch(placeholder_re, s)

\* C22: on an HTML string without marker comments, no saved span holds a
\* marker, and restore_code_sections after protect_code_sections gives the
\* string back
C22_ProtectRestoreIdentity ==
  ~HasCodeMarker(input) =>
    /\ pc = "guarded" => \A i \in DOMAIN placeholders : ~HasCodeMarker(placeholders[i])
    /\ pc = "unguarded" => text = input

\* C23: the paragraph made of a prefix chain and a free-form content holds
\* the whole content, and carries no attribute but those of the chain
C23_ContentAfterChainKept ==
  pc = "block_decorated" =>
    \A ch \in PrefixChains, c \in FreeContents :
      (InExtractionOrder(ch) /\ input = ContentLine(ch, c)) =>
        /\ EndsWith(text, ">" \o c \o "</p>")
        /\ \A k \in DOMAIN PrefixKinds :
              Contains(text, PrefixAttributes[k]) => \E i \in DOMAIN ch : ch[i] = k

\* lines that preprocess_conflicts matches with CUSTOM_HEADER_ID or
\* LUKIWIKI_BLOCKQUOTE, and lines that it matches with nothing
RewrittenLines == {"## B {#b}", "> a <"}
UntouchedLines == {"plain", "", "# A"}

\* C24: in a document of heading lines with an id, blockquote lines and lines
\* that match nothing, preprocess_conflicts keeps the number of lines and
\* every line that matches nothing, blank lines included
C24_OnlyMatchedLinesChange ==
  pc = "protected" =>
    LET ins == SplitLF(input)
        outs == SplitLF(text)
    IN  (\A i \in DOMAIN ins : ins[i] \in RewrittenLines \cup UntouchedLines) =>
          /\ Len(outs) = Len(ins)
          /\ \A i \in DOMAIN ins : ins[i] \in UntouchedLines => outs[i] = ins[i]

====
